---- MODULE Spec2Model ----
(***************************************************************************)
(* A state-machine model of the goblin pirate game: the entity models of   *)
(* src/src/models.py, the agents of src/src/agents.py and the turn loop of *)
(* src/src/main.py.                                                        *)
(*                                                                         *)
(* Text is opaque to the mechanics; a Python str is modelled by a short    *)
(* token (a TLA+ string) and the only operations the code branches on are  *)
(* kept: emptiness and equality.  An optional Python value (None or an     *)
(* object) is a sequence of length 0 or 1.                                 *)
(***************************************************************************)
EXTENDS Integers, Sequences, FiniteSets, TLC

VARIABLES
    target_ship,        \* main.py target_ship: None (<<>>) or <<TargetShip>>
    goblin_ship,        \* the GoblinShip
    player_characters,  \* main.py player_characters: a sequence of PlayerCharacter
    ship_combat_agent,  \* ShipCombatAgent fields (running_narrative)
    boarding_agent,     \* BoardingCombatAgent fields (running_narrative)
    narrative_agent,    \* NarrativeAgent fields
    alloc,              \* create_player_character's locals while a character is created
    pc,                 \* main(): where the turn loop stands
    num_players,        \* main.py num_players
    current_players,    \* main.py current_players: this round's turn order
    player_idx,         \* position in current_players of the player whose turn it is
    should_loot,        \* main.py should_loot
    raid_outcome,       \* main.py raid_outcome
    game_ongoing,       \* main.py game_ongoing
    last,               \* the last operation applied: its inputs and the state before it
    tally,              \* how many times each counted event has happened
    steps               \* number of operations applied so far (unit-level specifications)

\* the objects of a raid
combatVars == <<target_ship, goblin_ship, ship_combat_agent, boarding_agent>>
\* the locals of main()
mainVars == <<pc, num_players, current_players, player_idx, should_loot,
              raid_outcome, game_ongoing>>

vars == <<target_ship, goblin_ship, player_characters, ship_combat_agent,
          boarding_agent, narrative_agent, alloc, pc, num_players,
          current_players, player_idx, should_loot, raid_outcome, game_ongoing,
          last, tally, steps>>

----------------------------------------------------------------------------
(* Bounds of the model *)

\* largest difficulty handed to TargetShip by the unit-level specifications
MaxDifficulty == 13
\* number of operations applied in a row by the unit-level specifications
MaxSteps == 3
\* the goblin ship's loot is followed up to MaxLoot
MaxLoot == 40
\* the goblin ship's hull is upgraded up to MaxHull by the unit-level specification
MaxHull == 30

----------------------------------------------------------------------------
(* Optional values *)

None == <<>>
Some(x) == <<x>>
IsNone(o) == o = <<>>
The(o) == o[1]

Max(a, b) == IF a >= b THEN a ELSE b
Min(a, b) == IF a <= b THEN a ELSE b

----------------------------------------------------------------------------
(* DiceAgent *)

Die == 1..6

\* roll_2d6: random.randint(1, 6) + random.randint(1, 6)
roll_2d6 == {a + b : a \in Die, b \in Die}

----------------------------------------------------------------------------
(* models.py *)

\* PlayerCharacter.__init__
PlayerCharacter(name, origin_story, strength, cunning, marksmanship, signature_loot) ==
    [name |-> name, origin_story |-> origin_story, strength |-> strength,
     cunning |-> cunning, marksmanship |-> marksmanship,
     signature_loot |-> signature_loot, living |-> TRUE]

\* GoblinShip.__init__, with the ship_story attribute main() attaches to it
GoblinShip(name) ==
    [name |-> name, hull |-> 20, speed |-> 1, cannons |-> 1, trickery |-> 1,
     loot |-> 0, max_hull |-> 20, ship_story |-> "ship story"]

TargetShipHull_Times3(difficulty) == Max(5, difficulty * 3)

\* the hull of a new TargetShip
TargetShipHull(difficulty) == Max(5, difficulty)

\* TargetShip.__init__
TargetShip(difficulty, narrative) ==
    [hull |-> TargetShipHull(difficulty), difficulty |-> difficulty,
     narrative |-> narrative, boardable |-> FALSE, escaped |-> FALSE]

\* GoblinShip.repair: the ship afterwards; it returns True iff loot >= 10
repair(ship) ==
    IF ship.loot >= 10
    THEN [ship EXCEPT !.loot = @ - 10, !.hull = Min(ship.max_hull, @ + 5)]
    ELSE ship

train_crew_Above(ship) ==
    IF ship.loot > 5
    THEN [ship EXCEPT !.loot = @ - 5, !.speed = Min(5, @ + 1),
                      !.cannons = Min(5, @ + 1), !.trickery = Min(5, @ + 1)]
    ELSE ship

train_crew_NoCap(ship) ==
    IF ship.loot >= 5
    THEN [ship EXCEPT !.loot = @ - 5, !.speed = @ + 1,
                      !.cannons = @ + 1, !.trickery = @ + 1]
    ELSE ship

\* GoblinShip.train_crew: the ship afterwards; it returns True iff loot >= 5
train_crew(ship) ==
    IF ship.loot >= 5
    THEN [ship EXCEPT !.loot = @ - 5, !.speed = Min(5, @ + 1),
                      !.cannons = Min(5, @ + 1), !.trickery = Min(5, @ + 1)]
    ELSE ship

\* GoblinShip.upgrade: the ship afterwards
upgrade(ship, stat) ==
    IF ship.loot < 20 THEN ship
    ELSE IF stat = "hull"
    THEN [ship EXCEPT !.loot = @ - 20, !.max_hull = @ + 5, !.hull = @ + 5]
    ELSE IF stat = "speed"
    THEN [ship EXCEPT !.loot = @ - 20, !.speed = Min(5, @ + 1)]
    ELSE IF stat = "cannons"
    THEN [ship EXCEPT !.loot = @ - 20, !.cannons = Min(5, @ + 1)]
    ELSE IF stat = "trickery"
    THEN [ship EXCEPT !.loot = @ - 20, !.trickery = Min(5, @ + 1)]
    ELSE ship

\* what repair, train_crew and upgrade return
repair_returns(ship) == ship.loot >= 10
train_crew_returns(ship) == ship.loot >= 5
upgrade_returns(ship, stat) ==
    IF ship.loot < 20 THEN FALSE
    ELSE stat \in {"hull", "speed", "cannons", "trickery"}

----------------------------------------------------------------------------
(* Text produced by the language model *)

APOLOGY == "I apologize"

\* what call_llm can hand back for a narrative prompt: the backend's text,
\* which may be empty, or the apology when the backend raised
LLMText == {"", "text", APOLOGY}

\* str + str, up to emptiness
Concat(a, b) == IF a = "" /\ b = "" THEN "" ELSE "text"

----------------------------------------------------------------------------
(* BuildTargetShipAgent *)

\* generate_target_ship: one call_llm for the description, then TargetShip(...)
generate_target_ship(ship_difficulty, narrative) ==
    TargetShip(ship_difficulty, narrative)

----------------------------------------------------------------------------
(* ShipCombatAgent *)

\* ShipCombatAgent.__init__
ShipCombatAgent == [running_narrative |-> ""]

\* attack_roll = dice_agent.roll_2d6() + attacking_ship.cannons
attack_roll_of(roll, ship) == roll + ship.cannons

\* defense_roll = dice_agent.roll_2d6() + int(target_ship.difficulty // 4)
defense_roll_of(roll, target) == roll + (target.difficulty \div 4)

\* target_escaped
target_escaped_of(defense_roll) == defense_roll >= 12

combat_damage_NoCritical(attack_roll, defense_roll) ==
    IF attack_roll > defense_roll THEN attack_roll - defense_roll ELSE 0

\* the damage of a round in which the target did not escape
combat_damage(attack_roll, defense_roll) ==
    IF attack_roll >= 12 THEN 3
    ELSE IF attack_roll > defense_roll THEN attack_roll - defense_roll
    ELSE 0

is_boardable_Below(hull) == hull < 5

is_boardable_Sunk(hull) == 0 < hull /\ hull <= 5

\* is_boardable = target_ship.hull <= 5
is_boardable(hull) == hull <= 5

resolve_combat_target_NoReturn(ship, target, roll1, roll2) ==
    LET attack_roll == attack_roll_of(roll1, ship)
        defense_roll == defense_roll_of(roll2, target)
        hull == target.hull - combat_damage(attack_roll, defense_roll)
    IN  [target EXCEPT !.escaped = IF target_escaped_of(defense_roll) THEN TRUE ELSE @,
                       !.hull = hull,
                       !.boardable = IF is_boardable(hull) THEN TRUE ELSE @]

\* resolve_combat's effect on the target ship, given the two rolls in the
\* order the code draws them
resolve_combat_target(ship, target, roll1, roll2) ==
    LET attack_roll == attack_roll_of(roll1, ship)
        defense_roll == defense_roll_of(roll2, target)
    IN  IF target_escaped_of(defense_roll)
        THEN [target EXCEPT !.escaped = TRUE]
        ELSE LET hull == target.hull - combat_damage(attack_roll, defense_roll)
             IN  [target EXCEPT !.hull = hull,
                                !.boardable = IF is_boardable(hull) THEN TRUE ELSE @]

\* resolve_combat's effect on the agent: the narrative of a round in which
\* the target did not escape is added to running_narrative, with the
\* boarding note when the target is now boardable
resolve_combat_agent(agent, ship, target, roll1, roll2, narrative) ==
    LET after == resolve_combat_target(ship, target, roll1, roll2)
    IN  IF target_escaped_of(defense_roll_of(roll2, target))
        THEN agent
        ELSE [agent EXCEPT !.running_narrative =
                 Concat(@, IF is_boardable(after.hull) THEN Concat(narrative, "text")
                           ELSE narrative)]

resolve_combat_ship_ReturnFire(ship, target, roll1, roll2) ==
    IF attack_roll_of(roll1, ship) < defense_roll_of(roll2, target)
    THEN [ship EXCEPT !.hull = @ - 1]
    ELSE ship

\* resolve_combat's effect on the attacking ship: its cannons and its texts
\* are read, no field is assigned
resolve_combat_ship(ship, target, roll1, roll2) == ship

----------------------------------------------------------------------------
(* BoardingCombatAgent *)

\* BoardingCombatAgent.__init__
BoardingCombatAgent == [running_narrative |-> ""]

best_stat_Strength(goblin) == goblin.strength

\* best_stat[1]: the value of max(stats.items(), key=lambda x: x[1])
best_stat(goblin) == Max(goblin.strength, Max(goblin.cunning, goblin.marksmanship))

boarding_damage_Glancing(attack_roll, difficulty) ==
    IF attack_roll >= difficulty + 4 THEN attack_roll - difficulty ELSE 0

\* the damage of a boarding action
boarding_damage(attack_roll, difficulty) ==
    IF attack_roll >= difficulty THEN attack_roll - difficulty ELSE 0

\* resolve_boarding_combat's effect on the target ship; the code draws one
\* roll, for the attack
resolve_boarding_combat_target(goblin, target, roll1) ==
    LET attack_roll == roll1 + best_stat(goblin)
        difficulty == target.difficulty
    IN  [target EXCEPT !.hull = @ - boarding_damage(attack_roll, difficulty)]

\* resolve_boarding_combat's effect on the goblin: no field is assigned
resolve_boarding_combat_goblin(goblin, target, roll1) == goblin

----------------------------------------------------------------------------
(* Unit-level specifications: the operations applied to the objects in any  *)
(* order, as the tests of tests/test_game.py apply them, with the dice and  *)
(* the language model's text as inputs.                                    *)

Snapshot ==
    [target_ship |-> target_ship, goblin_ship |-> goblin_ship,
     player_characters |-> player_characters, alloc |-> alloc,
     narrative_agent |-> narrative_agent]

Op(op, args) == [op |-> op, args |-> args, before |-> Some(Snapshot)]

\* the counted events: append_to_story calls, _summarize_story runs, backend
\* calls (_single_call) and create_end_stage calls
NoTally == [appends |-> 0, summaries |-> 0, single_calls |-> 0, end_stages |-> 0]

\* no operation is on record
NoOp == [op |-> "none", args |-> <<>>, before |-> None]

\* the stat triples a character can be created with (see create_player_character
\* and generate_unbalanced_goblin below): three points over three stats
StatTriples ==
    {t \in (0..3) \X (0..3) \X (0..3) : t[1] + t[2] + t[3] = 3}

\* a goblin ship as main() can hand it to the combat agents: cannons is
\* raised by train_crew and upgrade up to 5
ShipWithCannons(c) == [GoblinShip("ship") EXCEPT !.cannons = c]

UnitGenerateTargetShip ==
    /\ steps < MaxSteps
    /\ last = NoOp
    /\ \E d \in 0..MaxDifficulty, narrative \in LLMText :
          /\ target_ship' = Some(generate_target_ship(d, narrative))
          /\ last' = Op("generate_target_ship", <<d>>)
    /\ steps' = steps + 1
    /\ UNCHANGED <<goblin_ship, player_characters, ship_combat_agent, boarding_agent,
                   narrative_agent, alloc, mainVars, tally>>

UnitResolveCombat ==
    /\ steps < MaxSteps
    /\ last = NoOp
    /\ ~IsNone(target_ship)
    /\ \E roll1 \in roll_2d6, roll2 \in roll_2d6, narrative \in LLMText :
          /\ target_ship' = Some(resolve_combat_target(goblin_ship, The(target_ship), roll1, roll2))
          /\ ship_combat_agent' = Some(resolve_combat_agent(The(ship_combat_agent), goblin_ship,
                                                            The(target_ship), roll1, roll2, narrative))
          /\ goblin_ship' = resolve_combat_ship(goblin_ship, The(target_ship), roll1, roll2)
          /\ last' = Op("resolve_combat", <<roll1, roll2>>)
    /\ steps' = steps + 1
    /\ UNCHANGED <<player_characters, boarding_agent,
                   narrative_agent, alloc, mainVars, tally>>

\* the dice hold two further results, roll1 and roll2, when the action is resolved
UnitResolveBoardingCombat ==
    /\ steps < MaxSteps
    /\ last = NoOp
    /\ ~IsNone(target_ship)
    /\ \E roll1 \in roll_2d6, roll2 \in roll_2d6 :
          /\ target_ship' = Some(resolve_boarding_combat_target(player_characters[1],
                                                                The(target_ship), roll1))
          /\ player_characters' =
                <<resolve_boarding_combat_goblin(player_characters[1], The(target_ship), roll1)>>
          /\ last' = Op("resolve_boarding_combat", <<roll1, roll2>>)
    /\ steps' = steps + 1
    /\ UNCHANGED <<goblin_ship, ship_combat_agent, boarding_agent,
                   narrative_agent, alloc, mainVars, tally>>

\* the record of the last operation is dropped before the next one is applied;
\* the objects keep their state
UnitForget ==
    /\ last # NoOp
    /\ last' = NoOp
    /\ UNCHANGED <<combatVars, player_characters, narrative_agent, alloc, mainVars,
                   tally, steps>>

\* main() is not running in a unit-level specification
MainIdle ==
    /\ pc = "unit"
    /\ num_players = 0
    /\ current_players = <<>>
    /\ player_idx = 0
    /\ should_loot = FALSE
    /\ raid_outcome = ""
    /\ game_ongoing = FALSE

UnitInit(ships, goblins) ==
    /\ target_ship = None
    /\ goblin_ship \in ships
    /\ player_characters \in {<<g>> : g \in goblins}
    /\ ship_combat_agent = Some(ShipCombatAgent)
    /\ boarding_agent = Some(BoardingCombatAgent)
    /\ narrative_agent = None
    /\ alloc = None
    /\ MainIdle
    /\ last = NoOp
    /\ tally = NoTally
    /\ steps = 0

Goblins ==
    {PlayerCharacter("name", "story", t[1], t[2], t[3], "loot") : t \in StatTriples}

\* ship-to-ship combat against generated targets, for every cannons value
InitShipCombat == UnitInit({ShipWithCannons(c) : c \in 1..5}, {PlayerCharacter("name", "story", 2, 1, 0, "loot")})
NextShipCombat == UnitGenerateTargetShip \/ UnitResolveCombat \/ UnitForget
SpecShipCombat == InitShipCombat /\ [][NextShipCombat]_vars

\* boarding combat against generated targets, for every goblin
InitBoarding == UnitInit({GoblinShip("ship")}, Goblins)
NextBoarding == UnitGenerateTargetShip \/ UnitResolveBoardingCombat \/ UnitForget
SpecBoarding == InitBoarding /\ [][NextBoarding]_vars

----------------------------------------------------------------------------
(* PlayerCharacterCreation and create_player_character *)

\* largest stat value found in a language-model response (the smallest is -1)
MaxStatValue == 4

\* signature loot of the unbalanced goblin
FALLBACK_LOOT == "Rusty Lucky Coin"

\* PlayerCharacterCreation.__init__
PlayerCharacterCreation(name, origin_story) ==
    [name |-> name, origin_story |-> origin_story]

StatNames == {"strength", "cunning", "marksmanship"}

\* the outcomes of random.shuffle(stats): the orderings of the three stats
ShuffledStats ==
    {s \in [1..3 -> StatNames] : \A i, j \in 1..3 : i # j => s[i] # s[j]}

\* stat_values[stat]
stat_values(stats, stat) ==
    IF stats[1] = stat THEN 2 ELSE IF stats[2] = stat THEN 1 ELSE 0

generate_unbalanced_goblin_Even(creator, stats) ==
    PlayerCharacter(creator.name, creator.origin_story, 1, 1, 1, FALLBACK_LOOT)

\* generate_unbalanced_goblin, stats being the shuffled list
generate_unbalanced_goblin(creator, stats) ==
    PlayerCharacter(creator.name, creator.origin_story,
                    stat_values(stats, "strength"), stat_values(stats, "cunning"),
                    stat_values(stats, "marksmanship"), FALLBACK_LOOT)

\* a field of the response's JSON object: absent, or present with a value
JsonField(values) == {None} \cup {Some(v) : v \in values}

\* the responses parse_llm_response is handed: text json.loads rejects, JSON
\* that is no object, or an object with any of the four keys
NoObject(kind) ==
    [kind |-> kind, strength |-> None, cunning |-> None, marksmanship |-> None,
     signature_loot |-> None]
Responses ==
    {NoObject("invalid"), NoObject("array")} \cup
    [kind : {"object"}, strength : JsonField(-1..MaxStatValue),
     cunning : JsonField(-1..MaxStatValue), marksmanship : JsonField(-1..MaxStatValue),
     signature_loot : JsonField({"loot"})]

\* not 1 <= char_data[stat] <= 3
stat_out_of_range(v) == ~(1 <= v /\ v <= 3)

\* parse_llm_response: a response json.loads rejects, one that is no object
\* and one that lacks a key raise inside the try block and give the
\* unbalanced goblin; stat_cnt adds up the out-of-range stats only
parse_llm_response(creator, response, stats) ==
    IF response.kind # "object"
    THEN generate_unbalanced_goblin(creator, stats)
    ELSE IF \/ IsNone(response.strength) \/ IsNone(response.cunning)
            \/ IsNone(response.marksmanship)
    THEN generate_unbalanced_goblin(creator, stats)
    ELSE LET strength == The(response.strength)
             cunning == The(response.cunning)
             marksmanship == The(response.marksmanship)
             broken_stats == \/ stat_out_of_range(strength)
                             \/ stat_out_of_range(cunning)
                             \/ stat_out_of_range(marksmanship)
             stat_cnt == (IF stat_out_of_range(strength) THEN strength ELSE 0)
                       + (IF stat_out_of_range(cunning) THEN cunning ELSE 0)
                       + (IF stat_out_of_range(marksmanship) THEN marksmanship ELSE 0)
         IN  IF broken_stats \/ stat_cnt # 3
             THEN generate_unbalanced_goblin(creator, stats)
             ELSE IF IsNone(response.signature_loot)
             THEN generate_unbalanced_goblin(creator, stats)
             ELSE PlayerCharacter(creator.name, creator.origin_story, strength,
                                  cunning, marksmanship, The(response.signature_loot))

\* generate_signature_loot: the text of one call_llm
generate_signature_loot == LLMText

\* the answers at the stat prompt: "1", "2", "3", or anything else
Choices == {"1", "2", "3", "4", ""}

alloc_begin_Four(name, story, signature_loot) ==
    [name |-> name, story |-> story, signature_loot |-> signature_loot,
     attribute_bank |-> 4, strength |-> 0, cunning |-> 0, marksmanship |-> 0]

\* create_player_character's locals when the allocation loop starts
alloc_begin(name, story, signature_loot) ==
    [name |-> name, story |-> story, signature_loot |-> signature_loot,
     attribute_bank |-> 3, strength |-> 0, cunning |-> 0, marksmanship |-> 0]

alloc_choice_NoRefund(a, choice) ==
    IF choice = "1" THEN [a EXCEPT !.strength = @ + 1, !.attribute_bank = @ - 1]
    ELSE IF choice = "2" THEN [a EXCEPT !.cunning = @ + 1, !.attribute_bank = @ - 1]
    ELSE IF choice = "3" THEN [a EXCEPT !.marksmanship = @ + 1, !.attribute_bank = @ - 1]
    ELSE [a EXCEPT !.attribute_bank = @ - 1]

\* one pass of the allocation loop; an invalid choice adds 1 to
\* attribute_bank before the loop's own attribute_bank -= 1
alloc_choice(a, choice) ==
    IF choice = "1" THEN [a EXCEPT !.strength = @ + 1, !.attribute_bank = @ - 1]
    ELSE IF choice = "2" THEN [a EXCEPT !.cunning = @ + 1, !.attribute_bank = @ - 1]
    ELSE IF choice = "3" THEN [a EXCEPT !.marksmanship = @ + 1, !.attribute_bank = @ - 1]
    ELSE [a EXCEPT !.attribute_bank = (@ + 1) - 1]

\* the PlayerCharacter create_player_character returns
alloc_character(a) ==
    PlayerCharacter(a.name, a.story, a.strength, a.cunning, a.marksmanship,
                    a.signature_loot)

Names == {"Grimtooth", "Snik"}
Stories == {"story"}

----------------------------------------------------------------------------
(* Unit-level specification of character creation: one character is made,  *)
(* by the prompts of create_player_character or from a response.           *)

\* the name and backstory prompts, the creator and its signature loot
UnitCreateBegin ==
    /\ alloc = None
    /\ player_characters = <<>>
    /\ \E name \in Names, story \in Stories, signature_loot \in generate_signature_loot :
          alloc' = Some(alloc_begin(name, story, signature_loot))
    /\ last' = Op("create_player_character", <<>>)
    /\ UNCHANGED <<combatVars, player_characters, narrative_agent, mainVars, tally, steps>>

\* one answer at the stat prompt; the character is returned when no point is left
UnitAllocChoice ==
    /\ ~IsNone(alloc)
    /\ \E choice \in Choices :
          LET a == alloc_choice(The(alloc), choice)
          IN  /\ last' = Op("alloc_choice", <<choice>>)
              /\ IF a.attribute_bank > 0
                 THEN /\ alloc' = Some(a)
                      /\ UNCHANGED player_characters
                 ELSE /\ alloc' = None
                      /\ player_characters' = Append(player_characters, alloc_character(a))
    /\ UNCHANGED <<combatVars, narrative_agent, mainVars, tally, steps>>

UnitParseLLMResponse ==
    /\ alloc = None
    /\ player_characters = <<>>
    /\ \E name \in Names, story \in Stories, response \in Responses, stats \in ShuffledStats :
          /\ player_characters' =
                <<parse_llm_response(PlayerCharacterCreation(name, story), response, stats)>>
          /\ last' = Op("parse_llm_response", <<name, story, response, stats>>)
    /\ UNCHANGED <<combatVars, narrative_agent, alloc, mainVars, tally, steps>>

UnitGenerateUnbalancedGoblin ==
    /\ alloc = None
    /\ player_characters = <<>>
    /\ \E name \in Names, story \in Stories, stats \in ShuffledStats :
          /\ player_characters' =
                <<generate_unbalanced_goblin(PlayerCharacterCreation(name, story), stats)>>
          /\ last' = Op("generate_unbalanced_goblin", <<name, story, stats>>)
    /\ UNCHANGED <<combatVars, narrative_agent, alloc, mainVars, tally, steps>>

InitCharacter ==
    /\ target_ship = None
    /\ goblin_ship = GoblinShip("ship")
    /\ player_characters = <<>>
    /\ ship_combat_agent = None
    /\ boarding_agent = None
    /\ narrative_agent = None
    /\ alloc = None
    /\ MainIdle
    /\ last = NoOp
    /\ tally = NoTally
    /\ steps = 0

NextCharacter ==
    \/ UnitCreateBegin
    \/ UnitAllocChoice
    \/ UnitParseLLMResponse
    \/ UnitGenerateUnbalancedGoblin

SpecCharacter == InitCharacter /\ [][NextCharacter]_vars

----------------------------------------------------------------------------
(* GameMasterAgent.call_llm *)

\* GameMasterAgent.__init__: max_iterations
max_iterations == 3

\* what one _single_call does: it raises (None) or returns the backend's text
BackendOutcome == JsonField({"", "text"})

\* the backend calls one call_llm can make
single_calls_of(agent) ==
    IF agent.deep_research THEN Max(1, agent.max_iterations) ELSE 1

\* the backend's behaviour during one call_llm: the outcome of each _single_call
BackendOutcomes(agent) == [1..single_calls_of(agent) -> BackendOutcome]

\* the refinement loop, from backend call i on; a raising call ends call_llm
\* with the apology
RECURSIVE refine(_, _, _, _)
refine(outcomes, i, n, current_response) ==
    IF i > n THEN [response |-> current_response, single_calls |-> n]
    ELSE IF IsNone(outcomes[i]) THEN [response |-> APOLOGY, single_calls |-> i]
    ELSE refine(outcomes, i + 1, n, The(outcomes[i]))

call_llm_NoStop(agent, outcomes) ==
    IF IsNone(outcomes[1])
    THEN [response |-> APOLOGY, single_calls |-> single_calls_of(agent)]
    ELSE refine(outcomes, 2, single_calls_of(agent), The(outcomes[1]))

\* call_llm: the text returned and the number of backend calls made
call_llm(agent, outcomes) ==
    IF IsNone(outcomes[1]) THEN [response |-> APOLOGY, single_calls |-> 1]
    ELSE refine(outcomes, 2, single_calls_of(agent), The(outcomes[1]))

----------------------------------------------------------------------------
(* Unit-level specification of call_llm: an agent, in normal or in         *)
(* deep-research mode, is asked up to MaxSteps times; the response and the  *)
(* number of backend calls of the last request are kept in last.args.       *)

\* GameMasterAgent.__init__, for the fields call_llm reads
GameMasterAgent(deep_research) ==
    [deep_research |-> deep_research, max_iterations |-> max_iterations]

UnitCallLLM ==
    /\ steps < MaxSteps
    /\ steps' = steps + 1
    /\ \E outcomes \in BackendOutcomes(The(narrative_agent)) :
          LET result == call_llm(The(narrative_agent), outcomes)
          IN  /\ last' = Op("call_llm", <<outcomes, result.response, result.single_calls>>)
              /\ tally' = [tally EXCEPT !.single_calls = @ + result.single_calls]
    /\ UNCHANGED <<combatVars, player_characters, narrative_agent, alloc, mainVars>>

InitCallLLM ==
    /\ target_ship = None
    /\ goblin_ship = GoblinShip("ship")
    /\ player_characters = <<>>
    /\ ship_combat_agent = None
    /\ boarding_agent = None
    /\ narrative_agent \in {Some(GameMasterAgent(deep_research)) : deep_research \in BOOLEAN}
    /\ alloc = None
    /\ MainIdle
    /\ last = NoOp
    /\ tally = NoTally
    /\ steps = 0

NextCallLLM == UnitCallLLM

SpecCallLLM == InitCallLLM /\ [][NextCallLLM]_vars

----------------------------------------------------------------------------
(* NarrativeAgent.  A story is the sequence of its fragments: "" is <<>>,  *)
(* a text returned by call_llm is one fragment, and append_to_story adds    *)
(* one fragment (the separator and the new content).                       *)

\* number of append_to_story calls the unit-level specification makes
MaxAppends == 7

\* NarrativeAgent.__init__: max_updates_before_summary
max_updates_before_summary == 3

\* a str returned by call_llm, as a story
Str(text) == IF text = "" THEN <<>> ELSE <<text>>

\* _create_full_story
create_full_story(current_story) == <<"preamble">> \o current_story

\* NarrativeAgent.__init__
NarrativeAgent(deep_research) ==
    [current_story |-> <<>>, full_story |-> <<>>, end_stage |-> <<>>,
     story_update_counter |-> 0,
     max_updates_before_summary |-> max_updates_before_summary,
     deep_research |-> deep_research, max_iterations |-> max_iterations]

\* create_end_stage
create_end_stage(agent, outcomes) ==
    [agent EXCEPT !.end_stage = Str(call_llm(agent, outcomes).response)]

\* create_initial_narrative, up to its call of create_end_stage
create_initial_story(agent, outcomes) ==
    LET story == Str(call_llm(agent, outcomes).response)
    IN  [agent EXCEPT !.current_story = story,
                      !.full_story = create_full_story(story)]

\* _summarize_story: call_llm raises nothing, so the except branch is never taken
summarize_story(agent, outcomes) ==
    LET summarized_story == Str(call_llm(agent, outcomes).response)
    IN  [agent EXCEPT !.current_story = summarized_story,
                      !.full_story = create_full_story(summarized_story)]

\* whether this append_to_story runs the summarization
append_summarizes_Late(agent) ==
    agent.story_update_counter + 1 > agent.max_updates_before_summary

append_summarizes(agent) ==
    agent.story_update_counter + 1 >= agent.max_updates_before_summary

\* append_to_story
append_to_story(agent, new_content, outcomes) ==
    LET story == Append(agent.current_story, new_content)
        appended == [agent EXCEPT !.current_story = story,
                                  !.full_story = create_full_story(story),
                                  !.story_update_counter = @ + 1]
    IN  IF append_summarizes(agent)
        THEN [summarize_story(appended, outcomes) EXCEPT !.story_update_counter = 0]
        ELSE appended

\* the backend calls append_to_story makes
append_single_calls(agent, outcomes) ==
    IF append_summarizes(agent) THEN call_llm(agent, outcomes).single_calls ELSE 0

\* the fragments the turn loop appends: a raid summary, a loot narrative
Fragments == {"raid", "loot"}

----------------------------------------------------------------------------
(* Unit-level specification of the narrative store *)

UnitCreateInitialNarrative ==
    /\ tally.end_stages = 0
    /\ tally.appends = 0
    /\ \E o1 \in BackendOutcomes(The(narrative_agent)),
          o2 \in BackendOutcomes(The(narrative_agent)) :
          /\ narrative_agent' =
                Some(create_end_stage(create_initial_story(The(narrative_agent), o1), o2))
          /\ tally' = [tally EXCEPT
                !.end_stages = @ + 1,
                !.single_calls = @ + call_llm(The(narrative_agent), o1).single_calls
                                   + call_llm(The(narrative_agent), o2).single_calls]
          /\ last' = Op("create_initial_narrative", <<o1, o2>>)
    /\ UNCHANGED <<combatVars, player_characters, alloc, mainVars, steps>>

UnitAppendToStory ==
    /\ tally.appends < MaxAppends
    /\ \E new_content \in Fragments, outcomes \in BackendOutcomes(The(narrative_agent)) :
          /\ narrative_agent' =
                Some(append_to_story(The(narrative_agent), new_content, outcomes))
          /\ tally' = [tally EXCEPT
                !.appends = @ + 1,
                !.summaries = @ + (IF append_summarizes(The(narrative_agent)) THEN 1 ELSE 0),
                !.single_calls = @ + append_single_calls(The(narrative_agent), outcomes)]
          /\ last' = Op("append_to_story", <<new_content, outcomes>>)
    /\ UNCHANGED <<combatVars, player_characters, alloc, mainVars, steps>>

InitNarrative ==
    /\ target_ship = None
    /\ goblin_ship = GoblinShip("ship")
    /\ player_characters = <<>>
    /\ ship_combat_agent = None
    /\ boarding_agent = None
    /\ narrative_agent \in {Some(NarrativeAgent(deep_research)) : deep_research \in BOOLEAN}
    /\ alloc = None
    /\ MainIdle
    /\ last = NoOp
    /\ tally = NoTally
    /\ steps = 0

NextNarrative == UnitCreateInitialNarrative \/ UnitAppendToStory

SpecNarrative == InitNarrative /\ [][NextNarrative]_vars

----------------------------------------------------------------------------
(* Unit-level specification of the goblin ship: loot comes in as in the     *)
(* loot phase, and repair, train_crew and upgrade are called in any order.  *)

\* the stats upgrade is asked for: the four it knows and one it does not
UpgradeStats == {"hull", "speed", "cannons", "trickery", "sails"}

\* goblin_ship.loot += total_loot
UnitGainLoot ==
    /\ last = NoOp
    /\ \E total_loot \in 1..10 :
          /\ goblin_ship.loot + total_loot <= MaxLoot
          /\ goblin_ship' = [goblin_ship EXCEPT !.loot = @ + total_loot]
          /\ last' = Op("gain_loot", <<total_loot>>)
    /\ UNCHANGED <<target_ship, ship_combat_agent, boarding_agent, player_characters,
                   narrative_agent, alloc, mainVars, tally, steps>>

UnitRepair ==
    /\ last = NoOp
    /\ goblin_ship' = repair(goblin_ship)
    /\ last' = Op("repair", <<repair_returns(goblin_ship)>>)
    /\ UNCHANGED <<target_ship, ship_combat_agent, boarding_agent, player_characters,
                   narrative_agent, alloc, mainVars, tally, steps>>

UnitTrainCrew ==
    /\ last = NoOp
    /\ goblin_ship' = train_crew(goblin_ship)
    /\ last' = Op("train_crew", <<train_crew_returns(goblin_ship)>>)
    /\ UNCHANGED <<target_ship, ship_combat_agent, boarding_agent, player_characters,
                   narrative_agent, alloc, mainVars, tally, steps>>

\* upgrade; the hull is upgraded while max_hull is below MaxHull
UnitUpgrade ==
    /\ last = NoOp
    /\ \E stat \in UpgradeStats :
          /\ stat = "hull" => goblin_ship.max_hull < MaxHull
          /\ goblin_ship' = upgrade(goblin_ship, stat)
          /\ last' = Op("upgrade", <<upgrade_returns(goblin_ship, stat), stat>>)
    /\ UNCHANGED <<target_ship, ship_combat_agent, boarding_agent, player_characters,
                   narrative_agent, alloc, mainVars, tally, steps>>

InitGoblinShip == UnitInit({GoblinShip("ship")}, {PlayerCharacter("name", "story", 2, 1, 0, "loot")})
NextGoblinShip == UnitGainLoot \/ UnitRepair \/ UnitTrainCrew \/ UnitUpgrade \/ UnitForget
SpecGoblinShip == InitGoblinShip /\ [][NextGoblinShip]_vars

----------------------------------------------------------------------------
(* main(): the turn loop.  pc is the place main() stands at: a prompt it    *)
(* waits at, or the start of a phase.                                      *)

\* largest number of players entered at the first prompt
MaxPlayers == 2

\* the texts the language model returns in a game followed through main()
MainText == {"text"}

\* the backend's behaviour during one call_llm of such a game
MainOutcomes(agent) == [1..single_calls_of(agent) -> {Some(text) : text \in MainText}]

\* the narratives resolve_combat is handed: empty or not
CombatText == {"", "text"}

\* the step main() took last
MainOp(op) == [op |-> op, args |-> <<>>, before |-> None]

\* a player's turn taken last, with the player's place in the turn order
MainTurn(op, idx) == [op |-> op, args |-> <<idx>>, before |-> None]

\* the record of a turn together with the face of the die that decides it:
\* whether it came up 12
MainDice(op, idx, twelve) == [op |-> op, args |-> <<idx, twelve>>, before |-> None]

\* a prompt of main() answered last, with the answer
MainAnswer(op, answer) == [op |-> op, args |-> <<answer>>, before |-> None]

NO_RAID_STR == "No target ship spotted."

\* the name entered for the i-th goblin
NameOf(i) == IF i = 1 THEN "Grimtooth" ELSE IF i = 2 THEN "Snik" ELSE "Goblin"

\* random.shuffle(current_players): the orderings of a sequence
Shuffles(seq) ==
    {[i \in DOMAIN seq |-> seq[f[i]]] :
        f \in {g \in [DOMAIN seq -> DOMAIN seq] :
                  \A i, j \in DOMAIN seq : i # j => g[i] # g[j]}}

\* the difficulty of the ship spotted with a scouting roll
scout_difficulties(roll) ==
    IF roll >= 10 THEN 8..12
    ELSE IF roll >= 7 THEN 5..7
    ELSE {2, 3, 4, 12}

\* the answers at the sail-phase menu and at the upgrade menu
SailActions == {"1", "2", "3", "4", "5", "6"}
UpgradeChoices == {"1", "2", "3", "4", "5"}

\* stat_map
stat_map(choice) ==
    IF choice = "1" THEN "hull" ELSE IF choice = "2" THEN "speed"
    ELSE IF choice = "3" THEN "cannons" ELSE "trickery"

\* the characters create_player_character() can return
CreatedCharacters ==
    {PlayerCharacter(NameOf(0), story, t[1], t[2], t[3], loot) :
        story \in Stories, t \in StatTriples, loot \in generate_signature_loot \cap MainText}

boarding_continues_Never(target) == FALSE

\* the boarding loop's condition
boarding_continues(target) ==
    target.boardable /\ ~target.escaped /\ target.hull > 0

\* the ship-combat loop's condition
ship_combat_continues(target) ==
    ~target.boardable /\ ~target.escaped

\* where main() stands once the ship-combat loop is left
after_ship_combat(target) ==
    IF boarding_continues(target) THEN "boarding" ELSE "raid_result"

\* the ship size of the loot phase
ship_size(ship) ==
    LET total_stats == ship.speed + ship.cannons + ship.trickery
    IN  IF total_stats <= 3 THEN "small"
        ELSE IF total_stats <= 9 THEN "medium" ELSE "treasure"

\* roll_loot_die: the faces of the die of a ship size
roll_loot_die(size) ==
    IF size = "small" THEN 1..6
    ELSE IF size = "medium" THEN 1..8
    ELSE IF size = "treasure" THEN 1..10
    ELSE 1..6

RECURSIVE SumSeq(_)
SumSeq(seq) == IF seq = <<>> THEN 0 ELSE seq[1] + SumSeq(Tail(seq))

\* int(input("Enter number of players: "))
MainStart ==
    /\ pc = "start"
    /\ num_players' \in 0..MaxPlayers
    /\ pc' = "create"
    /\ last' = MainOp("num_players")
    /\ UNCHANGED <<combatVars, player_characters, narrative_agent, alloc,
                   current_players, player_idx, should_loot, raid_outcome,
                   game_ongoing, tally, steps>>

\* create_player_character(i): the name and backstory prompts, the creator
\* and its signature loot
MainCreateBegin ==
    /\ pc = "create"
    /\ alloc = None
    /\ Len(player_characters) < num_players
    /\ \E story \in Stories, signature_loot \in generate_signature_loot \cap MainText :
          alloc' = Some(alloc_begin(NameOf(Len(player_characters) + 1), story, signature_loot))
    /\ last' = MainOp("create_player_character")
    /\ UNCHANGED <<combatVars, player_characters, narrative_agent, mainVars, tally, steps>>

\* one answer at the stat prompt; the character joins player_characters when
\* no point is left
MainAllocChoice ==
    /\ pc = "create"
    /\ ~IsNone(alloc)
    /\ \E choice \in Choices :
          LET a == alloc_choice(The(alloc), choice)
          IN  IF a.attribute_bank > 0
              THEN /\ alloc' = Some(a)
                   /\ UNCHANGED player_characters
              ELSE /\ alloc' = None
                   /\ player_characters' = Append(player_characters, alloc_character(a))
    /\ last' = MainOp("alloc_choice")
    /\ UNCHANGED <<combatVars, narrative_agent, mainVars, tally, steps>>

\* the ship prompts, the NarrativeAgent, create_initial_narrative() and the
\* second create_end_stage() of main()
MainSetup ==
    /\ pc = "create"
    /\ alloc = None
    /\ Len(player_characters) = num_players
    /\ goblin_ship' = GoblinShip("ship")
    /\ \E o1 \in MainOutcomes(NarrativeAgent(FALSE)),
          o2 \in MainOutcomes(NarrativeAgent(FALSE)),
          o3 \in MainOutcomes(NarrativeAgent(FALSE)) :
          narrative_agent' =
              Some(create_end_stage(
                     create_end_stage(create_initial_story(NarrativeAgent(FALSE), o1), o2),
                     o3))
    /\ tally' = [tally EXCEPT !.end_stages = @ + 2]
    /\ game_ongoing' = TRUE
    /\ pc' = "sail_start"
    /\ last' = MainOp("setup")
    /\ UNCHANGED <<target_ship, ship_combat_agent, boarding_agent, player_characters,
                   alloc, num_players, current_players, player_idx, should_loot,
                   raid_outcome, steps>>

\* the top of the turn loop: the turn order is shuffled and no target is known
MainSailStart ==
    /\ pc = "sail_start"
    /\ game_ongoing
    /\ goblin_ship.loot <= MaxLoot
    /\ tally.appends < MaxAppends
    /\ current_players' \in Shuffles(player_characters)
    /\ target_ship' = None
    /\ player_idx' = 1
    /\ pc' = IF player_characters = <<>> THEN "raid" ELSE "sail"
    /\ last' = MainOp("sail_start")
    /\ UNCHANGED <<goblin_ship, ship_combat_agent, boarding_agent, player_characters,
                   narrative_agent, alloc, num_players, should_loot, raid_outcome,
                   game_ongoing, tally, steps>>

\* the next player's turn of the sail phase, or the raid phase after the last
sail_next_pc == IF player_idx < Len(current_players) THEN "sail" ELSE "raid"
sail_next_idx == IF player_idx < Len(current_players) THEN player_idx + 1 ELSE player_idx

\* a player's answer at the sail-phase menu
MainSailAction ==
    /\ pc = "sail"
    /\ \E action \in SailActions :
          /\ IF action = "1"
             THEN \E ship_difficulty \in UNION {scout_difficulties(roll) : roll \in roll_2d6} :
                    \E narrative \in MainText :
                      target_ship' = Some(generate_target_ship(ship_difficulty, narrative))
             ELSE UNCHANGED target_ship
          /\ goblin_ship' = IF action = "2" THEN repair(goblin_ship)
                            ELSE IF action = "3" THEN train_crew(goblin_ship)
                            ELSE goblin_ship
          /\ pc' = IF action = "4" THEN "upgrade" ELSE sail_next_pc
          /\ player_idx' = IF action = "4" THEN player_idx ELSE sail_next_idx
          /\ last' = MainAnswer("sail_action", action)
    /\ UNCHANGED <<ship_combat_agent, boarding_agent, player_characters, narrative_agent,
                   alloc, num_players, current_players, should_loot, raid_outcome,
                   game_ongoing, tally, steps>>

\* a player's answer at the upgrade menu
MainUpgradeChoice ==
    /\ pc = "upgrade"
    /\ \E upgrade_choice \in UpgradeChoices :
          /\ goblin_ship' = IF upgrade_choice \in {"1", "2", "3", "4"}
                            THEN upgrade(goblin_ship, stat_map(upgrade_choice))
                            ELSE goblin_ship
          /\ last' = MainAnswer("upgrade_choice", upgrade_choice)
    /\ pc' = sail_next_pc
    /\ player_idx' = sail_next_idx
    /\ UNCHANGED <<target_ship, ship_combat_agent, boarding_agent, player_characters,
                   narrative_agent, alloc, num_players, current_players, should_loot,
                   raid_outcome, game_ongoing, tally, steps>>

\* the start of the raid phase: with a target the combat agents are created
\* and the ship-combat loop is entered
MainRaidStart ==
    /\ pc = "raid"
    /\ should_loot' = FALSE
    /\ IF ~IsNone(target_ship)
       THEN /\ ship_combat_agent' = Some(ShipCombatAgent)
            /\ boarding_agent' = Some(BoardingCombatAgent)
            /\ pc' = IF ship_combat_continues(The(target_ship)) THEN "ship_combat"
                     ELSE after_ship_combat(The(target_ship))
            /\ UNCHANGED raid_outcome
       ELSE /\ raid_outcome' = NO_RAID_STR
            /\ pc' = "post_raid"
            /\ UNCHANGED <<ship_combat_agent, boarding_agent>>
    /\ player_idx' = 1
    /\ last' = MainOp("raid_start")
    /\ UNCHANGED <<target_ship, goblin_ship, player_characters, narrative_agent, alloc,
                   num_players, current_players, game_ongoing, tally, steps>>

\* what resolve_combat can leave of the target and of the agent, over the
\* two rolls and the narrative it is handed
resolve_combat_results ==
    {[target |-> resolve_combat_target(goblin_ship, The(target_ship), roll1, roll2),
      agent |-> resolve_combat_agent(The(ship_combat_agent), goblin_ship,
                                     The(target_ship), roll1, roll2, narrative),
      ship |-> resolve_combat_ship(goblin_ship, The(target_ship), roll1, roll2)] :
        roll1 \in roll_2d6, roll2 \in roll_2d6, narrative \in CombatText}

ship_combat_breaks_NoEscape(target) == target.boardable

\* the checks after resolve_combat that leave the pass over the players
ship_combat_breaks(target) == target.boardable \/ target.escaped

\* a player's turn in ship combat: resolve_combat, then the checks that
\* leave the pass, and the loop's condition when the pass is over; record is
\* what is remembered of the turn
ship_combat_turn(result, record) ==
    /\ LET target == result.target
       IN  /\ target_ship' = Some(target)
           /\ ship_combat_agent' = Some(result.agent)
           /\ goblin_ship' = result.ship
           /\ IF ~ship_combat_breaks(target) /\ player_idx < Len(current_players)
              THEN /\ pc' = "ship_combat"
                   /\ player_idx' = player_idx + 1
              ELSE /\ pc' = IF ship_combat_continues(target) THEN "ship_combat"
                            ELSE after_ship_combat(target)
                   /\ player_idx' = 1
           /\ should_loot' = IF ~target.boardable /\ target.escaped THEN FALSE
                             ELSE should_loot
    /\ last' = record
    /\ UNCHANGED <<boarding_agent, player_characters, narrative_agent, alloc,
                   num_players, current_players, raid_outcome, game_ongoing, tally, steps>>

MainShipCombat ==
    /\ pc = "ship_combat"
    /\ \E result \in resolve_combat_results :
          ship_combat_turn(result, MainTurn("ship_combat_turn", player_idx))

\* what resolve_boarding_combat can leave of the target and of the goblin,
\* over its roll
resolve_boarding_combat_results ==
    {[target |-> resolve_boarding_combat_target(current_players[player_idx],
                                                The(target_ship), roll1),
      goblin |-> resolve_boarding_combat_goblin(current_players[player_idx],
                                                The(target_ship), roll1)] :
        roll1 \in roll_2d6}

\* a player's turn in boarding combat: resolve_boarding_combat, the
\* replacement of a fallen goblin, and the loop's condition after the last
\* player of a pass; record is what is remembered of the turn
boarding_turn(result, record) ==
    /\ LET player == current_players[player_idx]
           target == result.target
           goblin == result.goblin
       IN  /\ target_ship' = Some(target)
           /\ IF ~goblin.living
              THEN \E new \in CreatedCharacters :
                   /\ current_players' = [current_players EXCEPT ![player_idx] = new]
                   /\ player_characters' =
                         [j \in DOMAIN player_characters |->
                             IF j = player_idx THEN new
                             ELSE IF player_characters[j] = player THEN goblin
                             ELSE player_characters[j]]
              ELSE /\ current_players' = [current_players EXCEPT ![player_idx] = goblin]
                   /\ player_characters' =
                         [j \in DOMAIN player_characters |->
                             IF player_characters[j] = player THEN goblin
                             ELSE player_characters[j]]
           /\ IF player_idx < Len(current_players)
              THEN /\ player_idx' = player_idx + 1
                   /\ pc' = "boarding"
              ELSE /\ player_idx' = 1
                   /\ pc' = after_ship_combat(target)
    /\ last' = record
    /\ UNCHANGED <<goblin_ship, ship_combat_agent, boarding_agent, narrative_agent, alloc,
                   num_players, should_loot, raid_outcome, game_ongoing, tally, steps>>

MainBoarding ==
    /\ pc = "boarding"
    /\ \E result \in resolve_boarding_combat_results :
          boarding_turn(result, MainTurn("boarding_turn", player_idx))

should_loot_of_Always(target) == TRUE

\* should_loot, as "Check combat results" sets it
should_loot_of(target) ==
    IF target.escaped THEN FALSE
    ELSE IF target.hull <= 0 THEN TRUE
    ELSE FALSE

\* "Check combat results"
MainRaidResult ==
    /\ pc = "raid_result"
    /\ raid_outcome' = IF The(target_ship).escaped THEN "The enemy ship managed to escape!"
                       ELSE IF The(target_ship).hull <= 0 THEN "The enemy ship has been defeated!"
                       ELSE "The battle continues..."
    /\ should_loot' = should_loot_of(The(target_ship))
    /\ pc' = "post_raid"
    /\ last' = MainOp("raid_result")
    /\ UNCHANGED <<combatVars, player_characters, narrative_agent, alloc, num_players,
                   current_players, player_idx, game_ongoing, tally, steps>>

\* the end of the raid: summarize_raid reads self.raid_narrative, which no
\* agent has, and boarding_agent is unbound until a first raid with a target
post_raid_raises ==
    \/ ~IsNone(target_ship) /\ The(ship_combat_agent).running_narrative # ""
    \/ IsNone(boarding_agent)
    \/ ~IsNone(boarding_agent) /\ The(boarding_agent).running_narrative # ""

MainPostRaid ==
    /\ pc = "post_raid"
    /\ pc' = IF post_raid_raises THEN "crashed" ELSE "loot"
    /\ last' = MainOp("post_raid")
    /\ UNCHANGED <<combatVars, player_characters, narrative_agent, alloc, num_players,
                   current_players, player_idx, should_loot, raid_outcome, game_ongoing,
                   tally, steps>>

\* the loot phase and game_should_end()
MainLoot ==
    /\ pc = "loot"
    /\ IF should_loot
       THEN \E rolls \in [DOMAIN current_players -> roll_loot_die(ship_size(goblin_ship))],
               loot_narrative \in MainText,
               outcomes \in MainOutcomes(The(narrative_agent)) :
              /\ goblin_ship' = [goblin_ship EXCEPT !.loot = @ + SumSeq(rolls)]
              /\ narrative_agent' =
                    Some(append_to_story(The(narrative_agent), loot_narrative, outcomes))
              /\ tally' = [tally EXCEPT
                    !.appends = @ + 1,
                    !.summaries = @ + (IF append_summarizes(The(narrative_agent))
                                       THEN 1 ELSE 0)]
       ELSE UNCHANGED <<goblin_ship, narrative_agent, tally>>
    /\ \E should_end \in BOOLEAN : pc' = IF should_end THEN "ask_end" ELSE "ask_continue"
    /\ last' = MainOp("loot")
    /\ UNCHANGED <<target_ship, ship_combat_agent, boarding_agent, player_characters, alloc,
                   num_players, current_players, player_idx, should_loot, raid_outcome,
                   game_ongoing, steps>>

\* whether the answer at an end-of-round prompt sets game_ongoing to False:
\* "end the game here?" after game_should_end() returned True, "Continue
\* playing?" otherwise
game_ends(prompt, answer) ==
    IF prompt = "ask_end" THEN answer = "y" ELSE answer # "y"

\* the player's answer at the end-of-round prompt
MainEndPrompt ==
    /\ pc \in {"ask_end", "ask_continue"}
    /\ \E answer \in {"y", "n"} :
          LET ends == game_ends(pc, answer)
          IN  /\ game_ongoing' = ~ends
              /\ pc' = IF ends THEN "over" ELSE "sail_start"
              /\ last' = [op |-> "end_prompt", args |-> <<pc, answer>>, before |-> None]
    /\ UNCHANGED <<combatVars, player_characters, narrative_agent, alloc, num_players,
                   current_players, player_idx, should_loot, raid_outcome, tally, steps>>

Init ==
    /\ target_ship = None
    /\ goblin_ship = GoblinShip("ship")
    /\ player_characters = <<>>
    /\ ship_combat_agent = None
    /\ boarding_agent = None
    /\ narrative_agent = None
    /\ alloc = None
    /\ pc = "start"
    /\ num_players = 0
    /\ current_players = <<>>
    /\ player_idx = 0
    /\ should_loot = FALSE
    /\ raid_outcome = ""
    /\ game_ongoing = FALSE
    /\ last = NoOp
    /\ tally = NoTally
    /\ steps = 0

Next ==
    \/ MainStart
    \/ MainCreateBegin
    \/ MainAllocChoice
    \/ MainSetup
    \/ MainSailStart
    \/ MainSailAction
    \/ MainUpgradeChoice
    \/ MainRaidStart
    \/ MainShipCombat
    \/ MainBoarding
    \/ MainRaidResult
    \/ MainPostRaid
    \/ MainLoot
    \/ MainEndPrompt

Spec == Init /\ [][Next]_vars

----------------------------------------------------------------------------
(* Claims on the combat resolvers and on TargetShip *)

\* the state before the last operation
Before == The(last.before)
BeforeTarget == The(Before.target_ship)
NowTarget == The(target_ship)

\* the rolls of the last resolve_combat, as the claims name them
C_attack_roll == last.args[1] + Before.goblin_ship.cannons
C_defense_roll == last.args[2] + (BeforeTarget.difficulty \div 4)

\* C1: a ship-to-ship round whose defense roll is below 12 lowers the target
\* hull by exactly 3 when the attack roll is 12 or more, and otherwise by
\* exactly max(0, attack_roll - defense_roll), for every pair of rolls, every
\* cannons value and every difficulty.
C1_ShipDamage ==
    (last.op = "resolve_combat" /\ C_defense_roll < 12) =>
        NowTarget.hull = BeforeTarget.hull -
            (IF C_attack_roll >= 12 THEN 3 ELSE Max(0, C_attack_roll - C_defense_roll))

\* a critical round (damage 3 although the rolls differ by more) on a target
\* of difficulty 2..12
C1_Witness ==
    /\ last.op = "resolve_combat"
    /\ BeforeTarget.difficulty \in 2..12
    /\ C_defense_roll < 12
    /\ C_attack_roll >= 12
    /\ C_attack_roll - C_defense_roll > 3
    /\ NowTarget.hull = BeforeTarget.hull - 3

\* C2: whenever the defense roll is 12 or more, the target is marked escaped
\* and its hull and boardable flag are as before the round, whatever the
\* attack roll.
C2_Escape ==
    (last.op = "resolve_combat" /\ C_defense_roll >= 12) =>
        /\ NowTarget.escaped
        /\ NowTarget.hull = BeforeTarget.hull
        /\ NowTarget.boardable = BeforeTarget.boardable

\* an escape under a critical attack roll
C2_Witness ==
    /\ last.op = "resolve_combat"
    /\ C_defense_roll >= 12
    /\ C_attack_roll >= 12
    /\ ~BeforeTarget.escaped
    /\ NowTarget.escaped
    /\ NowTarget.hull = BeforeTarget.hull

\* C3: after a round in which the target does not escape and the attack roll
\* exceeds the defense roll, the hull is strictly lower than before and the
\* target is boardable exactly when the resulting hull is at most 5.
C3_Hit ==
    (last.op = "resolve_combat" /\ C_defense_roll < 12 /\ C_attack_roll > C_defense_roll) =>
        /\ NowTarget.hull < BeforeTarget.hull
        /\ NowTarget.boardable <=> (NowTarget.hull <= 5)

\* a hit that brings a target from above 5 to exactly 5 and makes it boardable
C3_Witness ==
    /\ last.op = "resolve_combat"
    /\ C_defense_roll < 12
    /\ C_attack_roll > C_defense_roll
    /\ BeforeTarget.hull > 5
    /\ ~BeforeTarget.boardable
    /\ NowTarget.hull = 5
    /\ NowTarget.boardable

\* the rolls of the last resolve_boarding_combat, as the claims name them: the
\* attack uses the first result of the dice, the defender the second
C_goblin_before == Before.player_characters[1]
C_boarding_attack_roll ==
    last.args[1] + Max(C_goblin_before.strength,
                       Max(C_goblin_before.cunning, C_goblin_before.marksmanship))
C_defender_roll == last.args[2] + (BeforeTarget.difficulty \div 4)

\* C4: whenever the defender's roll (a second 2d6 roll plus
\* floor(difficulty/4)) is 12 or more, the acting goblin's living flag becomes
\* false and the target hull is unchanged.
C4_BoardingDeath ==
    (last.op = "resolve_boarding_combat" /\ C_defender_roll >= 12) =>
        /\ ~player_characters[1].living
        /\ NowTarget.hull = BeforeTarget.hull

\* C5: when the goblin is not killed, a boarding action lowers the target
\* hull by exactly max(0, attack_roll - difficulty), with attack_roll the 2d6
\* roll plus the goblin's largest stat and difficulty the target's raw
\* difficulty; when attack_roll > difficulty the hull strictly decreases and
\* the goblin stays living.
C5_BoardingDamage ==
    (last.op = "resolve_boarding_combat" /\ player_characters[1].living) =>
        /\ NowTarget.hull = BeforeTarget.hull -
               Max(0, C_boarding_attack_roll - BeforeTarget.difficulty)
        /\ C_boarding_attack_roll > BeforeTarget.difficulty =>
               /\ NowTarget.hull < BeforeTarget.hull
               /\ player_characters[1].living

\* a boarding hit by a goblin whose largest stat is not strength, against a
\* target whose defender would reach neither the attack roll nor 12
C5_Witness ==
    /\ last.op = "resolve_boarding_combat"
    /\ C_goblin_before.strength = 0
    /\ C_goblin_before.marksmanship = 2
    /\ BeforeTarget.difficulty \in 2..12
    /\ C_boarding_attack_roll > BeforeTarget.difficulty
    /\ C_defender_roll < 12
    /\ NowTarget.hull = BeforeTarget.hull - (C_boarding_attack_roll - BeforeTarget.difficulty)
    /\ player_characters[1].living

\* C6: a newly created TargetShip has hull = max(5, difficulty), the given
\* difficulty, boardable = false and escaped = false, for every difficulty.
C6_TargetShipConstruction ==
    last.op = "generate_target_ship" =>
        /\ NowTarget.hull = (IF last.args[1] > 5 THEN last.args[1] ELSE 5)
        /\ NowTarget.difficulty = last.args[1]
        /\ NowTarget.boardable = FALSE
        /\ NowTarget.escaped = FALSE

\* a target of difficulty below 5 created over a damaged, boardable one
C6_Witness ==
    /\ last.op = "generate_target_ship"
    /\ last.args[1] = 3
    /\ ~IsNone(Before.target_ship)
    /\ BeforeTarget.boardable
    /\ NowTarget.hull = 5
    /\ ~NowTarget.boardable

----------------------------------------------------------------------------
(* Claims on character creation *)

\* C7: every PlayerCharacter produced by character creation (the point
\* allocation of create_player_character, or parse_llm_response with its
\* fallback) has strength + cunning + marksmanship = 3, each stat in 0..3,
\* and living = true.
C7_CharacterStats ==
    \A i \in DOMAIN player_characters :
        LET c == player_characters[i]
        IN  /\ c.strength + c.cunning + c.marksmanship = 3
            /\ c.strength \in 0..3
            /\ c.cunning \in 0..3
            /\ c.marksmanship \in 0..3
            /\ c.living = TRUE

\* a character returned by the allocation loop on its last point, with all
\* three points in cunning
C7_Witness ==
    /\ last.op = "alloc_choice"
    /\ Before.alloc # None
    /\ The(Before.alloc).attribute_bank = 1
    /\ Len(player_characters) = 1
    /\ player_characters[1].cunning = 3
    /\ player_characters[1].signature_loot = "text"

\* C8: for every outcome of the shuffle, generate_unbalanced_goblin returns a
\* character whose stats are a permutation of (2, 1, 0), with the fixed
\* fallback loot and the creator's name and origin story.
C8_UnbalancedGoblin ==
    last.op = "generate_unbalanced_goblin" =>
        LET c == player_characters[1]
            stats == last.args[3]
        IN  /\ \A v \in {0, 1, 2} :
                   Cardinality({n \in StatNames :
                       (CASE n = "strength" -> c.strength
                          [] n = "cunning" -> c.cunning
                          [] OTHER -> c.marksmanship) = v}) = 1
            /\ c.signature_loot = "Rusty Lucky Coin"
            /\ c.name = last.args[1]
            /\ c.origin_story = last.args[2]

\* the shuffle that puts marksmanship first and cunning last
C8_Witness ==
    /\ last.op = "generate_unbalanced_goblin"
    /\ last.args[3] = <<"marksmanship", "strength", "cunning">>
    /\ player_characters[1].marksmanship = 2
    /\ player_characters[1].strength = 1
    /\ player_characters[1].cunning = 0
    /\ player_characters[1].name = "Snik"

----------------------------------------------------------------------------
(* Claims on the narrative store *)

\* the text one call_llm returns under the backend outcomes on record: the
\* apology if any backend call raised, else the text of the last call
C_llm_output(outcomes) ==
    IF \E i \in DOMAIN outcomes : outcomes[i] = <<>>
    THEN "I apologize"
    ELSE outcomes[Len(outcomes)][1]

----------------------------------------------------------------------------
(* Claims on the raid as main() runs it *)

\* the places of main() inside a raid on a target
RaidPlaces == {"ship_combat", "boarding", "raid_result"}

\* C10 as stated: in every reachable state of a raid, at most one of the
\* three conditions holds for the target ship: boardable, escaped, defeated
\* (hull <= 0).
C10_StateExclusivity ==
    (pc \in RaidPlaces /\ ~IsNone(target_ship)) =>
        LET target == The(target_ship)
        IN  /\ ~(target.boardable /\ target.escaped)
            /\ ~(target.boardable /\ target.hull <= 0)
            /\ ~(target.escaped /\ target.hull <= 0)

\* C10, amended: in every reachable state of a raid an escaped target ship
\* is neither boardable nor defeated (hull <= 0), and a defeated target ship
\* is boardable: boardable and defeated hold together once the hull is
\* brought to 0 or below.
C10_EscapedExclusive ==
    (pc \in RaidPlaces /\ ~IsNone(target_ship)) =>
        LET target == The(target_ship)
        IN  /\ ~(target.escaped /\ target.boardable)
            /\ ~(target.escaped /\ target.hull <= 0)
            /\ target.hull <= 0 => target.boardable

\* a boarding turn has brought the hull of a boardable target to 0 or below
C10_Witness ==
    /\ pc \in RaidPlaces
    /\ last.op = "boarding_turn"
    /\ ~IsNone(target_ship)
    /\ The(target_ship).boardable
    /\ ~The(target_ship).escaped
    /\ The(target_ship).hull <= 0

\* C11: in every state reachable through ship-combat and boarding actions the
\* target ship's hull is >= 0 when the defeat and termination checks of the
\* raid read it.
C11_HullFloor ==
    (pc \in RaidPlaces /\ ~IsNone(target_ship)) => The(target_ship).hull >= 0

----------------------------------------------------------------------------
(* Claims on the structured response and on call_llm *)

\* the response is a JSON object with the four keys, each stat in 0..3 and
\* the stats summing to 3
C_valid_response(response) ==
    /\ response.kind = "object"
    /\ ~IsNone(response.strength) /\ ~IsNone(response.cunning)
    /\ ~IsNone(response.marksmanship) /\ ~IsNone(response.signature_loot)
    /\ The(response.strength) \in 0..3
    /\ The(response.cunning) \in 0..3
    /\ The(response.marksmanship) \in 0..3
    /\ The(response.strength) + The(response.cunning) + The(response.marksmanship) = 3

\* C12: parse_llm_response returns a character carrying exactly the
\* LLM-supplied strength, cunning, marksmanship and signature_loot whenever
\* the response is a JSON object with those four keys, each stat in 0..3 and
\* the stats summing to 3; for every other response it returns the unbalanced
\* fallback character.
C12_StructuredResponse ==
    last.op = "parse_llm_response" =>
        LET response == last.args[3]
            creator == PlayerCharacterCreation(last.args[1], last.args[2])
        IN  IF C_valid_response(response)
            THEN player_characters[1] =
                    PlayerCharacter(creator.name, creator.origin_story,
                                    The(response.strength), The(response.cunning),
                                    The(response.marksmanship),
                                    The(response.signature_loot))
            ELSE player_characters[1] =
                    generate_unbalanced_goblin(creator, last.args[4])

\* the backend calls of the last request that raised, by their position
C_raising(outcomes) == {i \in DOMAIN outcomes : IsNone(outcomes[i])}

\* smallest element of a non-empty set of numbers
C_first(S) == CHOOSE i \in S : \A j \in S : i <= j

\* C13: if any backend call (_single_call) raises during call_llm, in normal
\* or deep-research mode, call_llm returns the fixed apology string and makes
\* no further backend call for that request: the raising call is the last
\* one, with no retry and the remaining refinement iterations skipped.
C13_LLMFailure ==
    (last.op = "call_llm" /\ C_raising(last.args[1]) # {}) =>
        /\ last.args[2] = APOLOGY
        /\ last.args[3] = C_first(C_raising(last.args[1]))
        /\ tally.single_calls <= steps * single_calls_of(The(narrative_agent))

\* a deep-research request whose second backend call raised: two calls were
\* made, the third was not
C13_Witness ==
    /\ last.op = "call_llm"
    /\ The(narrative_agent).deep_research
    /\ last.args[1] = <<Some("text"), None, Some("text")>>
    /\ last.args[2] = APOLOGY
    /\ last.args[3] = 2

----------------------------------------------------------------------------
(* Claims on the goblin ship's actions *)

\* the ship before and after the last operation
C_ship_before == Before.goblin_ship

\* a call that returned False left the ship as it was; one that returned
\* True took exactly cost from loot
C_gated(returned, allowed, cost) ==
    /\ returned = allowed
    /\ returned => goblin_ship.loot = C_ship_before.loot - cost
    /\ ~returned => goblin_ship = C_ship_before

\* C14: repair, train_crew and upgrade return True exactly when the ship's
\* loot is at least 10, 5 and 20 respectively (and, for upgrade, the stat is
\* one of hull/speed/cannons/trickery); a successful call deducts exactly
\* that cost from loot; a failing call returns False and leaves every ship
\* attribute unchanged.
C14_LootGated ==
    /\ last.op = "repair" =>
          C_gated(last.args[1], C_ship_before.loot >= 10, 10)
    /\ last.op = "train_crew" =>
          C_gated(last.args[1], C_ship_before.loot >= 5, 5)
    /\ last.op = "upgrade" =>
          C_gated(last.args[1],
                  /\ C_ship_before.loot >= 20
                  /\ last.args[2] \in {"hull", "speed", "cannons", "trickery"},
                  20)

\* train_crew with exactly 5 loot succeeded and left none
C14_Witness ==
    /\ last.op = "train_crew"
    /\ last.args[1] = TRUE
    /\ C_ship_before.loot = 5
    /\ goblin_ship.loot = 0
    /\ goblin_ship.cannons = C_ship_before.cannons + 1

----------------------------------------------------------------------------
(* Claims on the prompts *)

\* the points given out so far in the allocation loop
C_allocated(a) == a.strength + a.cunning + a.marksmanship

\* C15: in create_player_character's allocation loop an invalid choice
\* (anything other than 1, 2 or 3) leaves the three stats and the remaining
\* point count unchanged and the prompt is shown again; strength + cunning +
\* marksmanship + remaining points = 3 holds at every iteration; a valid
\* choice gives out exactly one point, so the loop ends after exactly three
\* valid choices.
C15_StatAllocation ==
    /\ ~IsNone(alloc) =>
          /\ The(alloc).attribute_bank > 0
          /\ C_allocated(The(alloc)) + The(alloc).attribute_bank = 3
    /\ last.op = "alloc_choice" =>
          LET before == The(Before.alloc)
          IN  IF last.args[1] \in {"1", "2", "3"}
              THEN IF before.attribute_bank = 1
                   THEN /\ IsNone(alloc)
                        /\ C_allocated(before) = 2
                        /\ LET goblin == player_characters[Len(player_characters)]
                           IN  goblin.strength + goblin.cunning + goblin.marksmanship = 3
                   ELSE /\ ~IsNone(alloc)
                        /\ C_allocated(The(alloc)) = C_allocated(before) + 1
                        /\ The(alloc).attribute_bank = before.attribute_bank - 1
              ELSE alloc = Before.alloc /\ player_characters = Before.player_characters

\* an invalid answer given when two points were left: the loop stands where
\* it stood
C15_Witness ==
    /\ last.op = "alloc_choice"
    /\ last.args[1] = "4"
    /\ The(Before.alloc).attribute_bank = 2
    /\ ~IsNone(alloc)
    /\ The(alloc).attribute_bank = 2
    /\ C_allocated(The(alloc)) = 1

\* the game state a menu answer could change: everything but the place in
\* the turn order
C_game_state ==
    <<target_ship, goblin_ship, player_characters, ship_combat_agent, boarding_agent,
      narrative_agent, current_players, should_loot, raid_outcome, game_ongoing>>

\* C16: when a player enters an out-of-range choice at the sail-phase action
\* menu (not 1-5) or at the upgrade sub-menu (not 1-4), no game state is
\* mutated and the same player is prompted again, at the same menu, before
\* the turn passes to the next player.
C16_MenuInput ==
    [][/\ (pc = "sail" /\ last'.op = "sail_action"
              /\ last'.args[1] \notin {"1", "2", "3", "4", "5"}) =>
            (UNCHANGED C_game_state /\ pc' = "sail" /\ player_idx' = player_idx)
       /\ (pc = "upgrade" /\ last'.op = "upgrade_choice"
              /\ last'.args[1] \notin {"1", "2", "3", "4"}) =>
            (UNCHANGED C_game_state /\ pc' = "upgrade" /\ player_idx' = player_idx)
      ]_vars

----------------------------------------------------------------------------
(* Claims on the rounds of main() *)

\* the places of main() after the raid phase of a round
AfterRaidPlaces == {"post_raid", "loot", "ask_end", "ask_continue", "crashed"}

\* C17: in any round (including the first) in which no player scouted a
\* target during the sail phase, no ship-combat or boarding action is
\* resolved, the raid outcome is "No target ship spotted.", no loot is
\* awarded, and the round proceeds to the continuation check: main() does
\* not stop with an error on the way.
C17_NoTargetBranch ==
    /\ pc \in RaidPlaces => ~IsNone(target_ship)
    /\ (pc \in AfterRaidPlaces /\ IsNone(target_ship)) =>
          /\ raid_outcome = NO_RAID_STR
          /\ ~should_loot
          /\ pc # "crashed"

\* C18: in every round the goblin ship's loot is increased by the loot phase
\* only if that round's target ended the raid with hull <= 0 and escaped =
\* false; when the target escaped or no target was found, the round leaves
\* the ship's loot unchanged.
C18_LootGating ==
    /\ [](pc \in {"post_raid", "loot"} /\ should_loot =>
            /\ ~IsNone(target_ship)
            /\ The(target_ship).hull <= 0
            /\ ~The(target_ship).escaped)
    /\ [][goblin_ship'.loot > goblin_ship.loot =>
            /\ pc = "loot"
            /\ should_loot
            /\ ~IsNone(target_ship)
            /\ The(target_ship).hull <= 0
            /\ ~The(target_ship).escaped]_vars
    /\ [][(pc \in RaidPlaces \cup AfterRaidPlaces
              /\ (IsNone(target_ship) \/ The(target_ship).escaped)) =>
            goblin_ship'.loot = goblin_ship.loot]_vars

\* a round whose target escaped has gone through the loot phase to the
\* end-of-round prompt without any loot
C18_Witness ==
    /\ last.op = "loot"
    /\ pc \in {"ask_end", "ask_continue"}
    /\ ~IsNone(target_ship)
    /\ The(target_ship).escaped
    /\ ~should_loot
    /\ goblin_ship.loot = 0

\* C19: the turn loop ends only directly after a player's answer at the
\* end-of-round prompt, whether main() reaches "Game Over" or stops
\* otherwise; the result of game_should_end alone never ends the game: when
\* it returns True the game still continues into another round unless the
\* player answers 'y' to ending.
C19_GameEnd ==
    /\ pc \in {"over", "crashed"} => last.op = "end_prompt"
    /\ pc = "over" => ~game_ongoing
    /\ pc \in {"ask_end", "ask_continue"} => game_ongoing
    /\ (last.op = "end_prompt" /\ last.args[1] = "ask_end" /\ last.args[2] # "y") =>
          (game_ongoing /\ pc = "sail_start")

\* C20: in every game run the hidden end-stage narrative is generated
\* exactly once at game start (exactly one create_end_stage call assigns
\* end_stage), and end_stage never changes afterwards, in particular not
\* through append_to_story or summarization.
C20_EndStageOnce ==
    /\ [](~IsNone(narrative_agent) => tally.end_stages = 1)
    /\ [][(~IsNone(narrative_agent) /\ ~IsNone(narrative_agent')) =>
            /\ The(narrative_agent').end_stage = The(narrative_agent).end_stage
            /\ tally'.end_stages = tally.end_stages]_vars

----------------------------------------------------------------------------
(* Claims on the loops of the raid phase *)

\* the place in the turn order after place idx
C_next_place(idx) == IF idx < Len(current_players) THEN idx + 1 ELSE 1

\* C21: no resolve_combat is invoked on a target after it has become
\* boardable or escaped (the remaining players of that pass do not act), and
\* while neither flag is set the loop keeps giving players turns in the
\* round's turn order.
C21_ShipCombatLoop ==
    /\ [](pc = "ship_combat" =>
            /\ ~IsNone(target_ship)
            /\ ~The(target_ship).boardable
            /\ ~The(target_ship).escaped
            /\ player_idx \in 1..Len(current_players))
    /\ [][last'.op = "ship_combat_turn" =>
            /\ pc = "ship_combat"
            /\ last'.args[1] = player_idx
            /\ IF The(target_ship').boardable \/ The(target_ship').escaped
               THEN pc' # "ship_combat"
               ELSE /\ pc' = "ship_combat"
                    /\ player_idx' = C_next_place(player_idx)
                    /\ current_players' = current_players]_vars

\* the first of two players made the target boardable: the second gets no
\* ship-combat turn and boarding starts
C21_Witness ==
    /\ last.op = "ship_combat_turn"
    /\ last.args[1] = 1
    /\ Len(current_players) = 2
    /\ The(target_ship).boardable
    /\ pc = "boarding"
    /\ player_idx = 1

\* C22: no boarding action is resolved against a target whose hull is
\* already <= 0: the boarding sub-loop stops as soon as the target is
\* defeated and later players in the same pass do not attack it.  (At the
\* place "boarding" the next step is a player's resolve_boarding_combat.)
C22_BoardingStop ==
    pc = "boarding" =>
        /\ ~IsNone(target_ship)
        /\ The(target_ship).hull > 0

\* the round's target is defeated: hull <= 0 and not escaped
C_defeated ==
    /\ ~IsNone(target_ship)
    /\ The(target_ship).hull <= 0
    /\ ~The(target_ship).escaped

\* C23: whenever a raid ends with the target defeated (hull <= 0, not
\* escaped), the same round reaches the loot phase (main() does not stop
\* before it), each player in the turn order rolls one loot die, and the
\* goblin ship's loot increases by the sum of those rolls (at least the
\* number of players) before the continuation check.
C23_DefeatLeadsToLoot ==
    /\ []((pc \in AfterRaidPlaces /\ C_defeated) => pc # "crashed")
    /\ []((pc \in {"post_raid", "loot"} /\ C_defeated) => should_loot)
    /\ [][(pc = "loot" /\ C_defeated) =>
            /\ goblin_ship'.loot >= goblin_ship.loot + Len(current_players)
            /\ pc' \in {"ask_end", "ask_continue"}]_vars

----------------------------------------------------------------------------
(* Claims on the narrative store under failure *)

\* C24: if the LLM call fails while append_to_story triggers a
\* summarization, the narrative continues with the original story:
\* current_story still holds the un-summarized text, including the fragment
\* just appended, afterwards.
C24_SummarizationFailure ==
    (/\ last.op = "append_to_story"
     /\ append_summarizes(The(Before.narrative_agent))
     /\ C_raising(last.args[2]) # {}) =>
        The(narrative_agent).current_story =
            Append(The(Before.narrative_agent).current_story, last.args[1])

----------------------------------------------------------------------------
(* Claims on the goblin ship's attributes *)

\* C25: starting from a fresh GoblinShip and after any sequence of repair,
\* train_crew and upgrade calls interleaved with loot gains, loot >= 0,
\* 0 <= hull <= max_hull, max_hull >= 20, and each of speed, cannons and
\* trickery is in 1..5.
C25_ShipInvariants ==
    /\ goblin_ship.loot >= 0
    /\ 0 <= goblin_ship.hull
    /\ goblin_ship.hull <= goblin_ship.max_hull
    /\ goblin_ship.max_hull >= 20
    /\ goblin_ship.speed \in 1..5
    /\ goblin_ship.cannons \in 1..5
    /\ goblin_ship.trickery \in 1..5

\* train_crew succeeded on a ship whose cannons were already at 5, after a
\* hull upgrade
C25_Witness ==
    /\ last.op = "train_crew"
    /\ last.args[1] = TRUE
    /\ C_ship_before.cannons = 5
    /\ goblin_ship.cannons = 5
    /\ goblin_ship.max_hull = 25
    /\ goblin_ship.hull = 25

\* a ship's attributes other than loot
C_but_loot(ship) == [ship EXCEPT !.loot = 0]

\* C26: every successful (True-returning) repair, train_crew or upgrade
\* changes at least one ship attribute other than loot, so loot is never
\* spent without effect.
C26_NoPaidNoOp ==
    (last.op \in {"repair", "train_crew", "upgrade"} /\ last.args[1] = TRUE) =>
        C_but_loot(goblin_ship) # C_but_loot(C_ship_before)

----------------------------------------------------------------------------
(* Claims on the target ship over a raid *)

\* C27: in every reachable state of a raid in which the target has not
\* escaped, from creation of the target by scouting (difficulty in 2..12)
\* onwards, the target is boardable if and only if its hull is <= 5.
C27_BoardableTracksHull ==
    (~IsNone(target_ship) /\ ~The(target_ship).escaped) =>
        (The(target_ship).boardable <=> The(target_ship).hull <= 5)

\* C28: every raid that starts ends with the target either escaped or
\* defeated (hull <= 0); the outcome "The battle continues..." is never
\* produced, and once a target is boardable it can no longer escape.
C28_RaidOutcomes ==
    /\ []((pc \in {"raid_result"} \cup AfterRaidPlaces /\ ~IsNone(target_ship)) =>
            (The(target_ship).escaped \/ The(target_ship).hull <= 0))
    /\ [](raid_outcome # "The battle continues...")
    /\ [][(/\ ~IsNone(target_ship)
           /\ The(target_ship).boardable
           /\ ~IsNone(target_ship')) => ~The(target_ship').escaped]_vars

\* a raid that went through boarding has just been judged: the target is
\* defeated
C28_Witness ==
    /\ last.op = "raid_result"
    /\ pc = "post_raid"
    /\ raid_outcome = "The enemy ship has been defeated!"
    /\ The(target_ship).boardable
    /\ The(target_ship).hull <= 0
    /\ ~The(target_ship).escaped

----------------------------------------------------------------------------
(* The raid phase on its own: main() stands at the start of the raid phase *)
(* with a scouted target, a crew in its turn order and a goblin ship, and   *)
(* is followed to the end of "Check combat results".  The dice are fair:    *)
(* a 12 keeps coming up, on the defense roll of ship combat (the target     *)
(* escapes) and on the attack roll of boarding (the hull goes down).        *)

\* goblins with best stat 1, 2 and 3
RaidGoblins ==
    {PlayerCharacter("name", "story", t[1], t[2], t[3], "loot") :
        t \in {<<1, 1, 1>>, <<2, 1, 0>>, <<0, 0, 3>>}}

\* the crews: any one goblin with three points over its stats, or the
\* weakest goblin followed by the strongest
RaidCrews ==
    {<<g>> : g \in Goblins} \cup
    {<<g, h>> : g \in {r \in RaidGoblins : best_stat(r) = 1},
                h \in {r \in RaidGoblins : best_stat(r) = 3}}

\* the goblin ship's cannons: as built, or fully upgraded
RaidCannons == {1, 5}

\* the difficulties scouting can give
ScoutDifficulties == UNION {scout_difficulties(roll) : roll \in roll_2d6}

InitRaid ==
    /\ target_ship \in {Some(generate_target_ship(d, narrative)) :
                            d \in ScoutDifficulties, narrative \in MainText}
    /\ goblin_ship \in {ShipWithCannons(c) : c \in RaidCannons}
    /\ player_characters \in RaidCrews
    /\ current_players = player_characters
    /\ ship_combat_agent = None
    /\ boarding_agent = None
    /\ narrative_agent = None
    /\ alloc = None
    /\ pc = "raid"
    /\ num_players = Len(player_characters)
    /\ player_idx = 1
    /\ should_loot = FALSE
    /\ raid_outcome = ""
    /\ game_ongoing = TRUE
    /\ last = NoOp
    /\ tally = NoTally
    /\ steps = 0

\* a ship-combat turn remembered with its dice: the defense roll is the
\* second roll resolve_combat draws
RaidShipCombat ==
    /\ pc = "ship_combat"
    /\ \E roll1 \in roll_2d6, roll2 \in roll_2d6, narrative \in CombatText :
        ship_combat_turn(
            [target |-> resolve_combat_target(goblin_ship, The(target_ship), roll1, roll2),
             agent |-> resolve_combat_agent(The(ship_combat_agent), goblin_ship,
                                            The(target_ship), roll1, roll2, narrative),
             ship |-> resolve_combat_ship(goblin_ship, The(target_ship), roll1, roll2)],
            MainDice("ship_combat_turn", player_idx, roll2 = 12))

\* a boarding turn remembered with its die: the attack roll is the one roll
\* resolve_boarding_combat draws
RaidBoarding ==
    /\ pc = "boarding"
    /\ \E roll1 \in roll_2d6 :
        boarding_turn(
            [target |-> resolve_boarding_combat_target(current_players[player_idx],
                                                       The(target_ship), roll1),
             goblin |-> resolve_boarding_combat_goblin(current_players[player_idx],
                                                       The(target_ship), roll1)],
            MainDice("boarding_turn", player_idx, roll1 = 12))

NextRaid == MainRaidStart \/ RaidShipCombat \/ RaidBoarding \/ MainRaidResult

\* fair dice: a die that is rolled again and again comes up 12 again and
\* again.  Every state at "ship_combat" is followed by a ship-combat turn
\* and every state at "boarding" by a boarding turn (WF_vars(NextRaid): the
\* loops never wait), so a loop that is never left rolls for ever.
FairDefenseRoll == last.op = "ship_combat_turn" /\ last.args[2]

FairAttackRoll == last.op = "boarding_turn" /\ last.args[2]

SpecRaid ==
    /\ InitRaid
    /\ [][NextRaid]_vars
    /\ WF_vars(NextRaid)
    /\ []<>(pc = "ship_combat") => []<>FairDefenseRoll
    /\ []<>(pc = "boarding") => []<>FairAttackRoll

\* C29: under fair dice (every 2d6 value keeps occurring) every raid
\* terminates, for every target difficulty in 2..12 and every crew of
\* characters whose stats sum to 3: the ship-combat loop eventually reaches
\* boardable or escaped, and the boarding loop eventually reaches hull <= 0.
C29_RaidTermination ==
    (pc \in {"raid", "ship_combat", "boarding"}) ~>
        (/\ pc = "post_raid"
         /\ The(target_ship).boardable \/ The(target_ship).escaped
         /\ The(target_ship).escaped \/ The(target_ship).hull <= 0)

\* the hardest boarding: a target of difficulty 12 has been defeated by a
\* single goblin whose best stat is 1
C29_Witness ==
    /\ pc = "post_raid"
    /\ Len(current_players) = 1
    /\ best_stat(current_players[1]) = 1
    /\ The(target_ship).difficulty = 12
    /\ The(target_ship).boardable
    /\ The(target_ship).hull <= 0

\* C30: resolve_combat and resolve_boarding_combat never change any
\* attribute of the player-owned GoblinShip (hull, max_hull, speed, cannons,
\* trickery, loot), so over a whole game the goblin ship's hull never
\* decreases.
C30_ShipUntouched ==
    [][/\ last'.op \in {"ship_combat_turn", "boarding_turn"} =>
            /\ goblin_ship'.hull = goblin_ship.hull
            /\ goblin_ship'.max_hull = goblin_ship.max_hull
            /\ goblin_ship'.speed = goblin_ship.speed
            /\ goblin_ship'.cannons = goblin_ship.cannons
            /\ goblin_ship'.trickery = goblin_ship.trickery
            /\ goblin_ship'.loot = goblin_ship.loot
       /\ goblin_ship'.hull >= goblin_ship.hull]_vars

\* a raid has been fought through both kinds of combat to the defeat of the
\* target, by an attack that lost the exchange of rolls at least once (the
\* target was not boardable when the raid began)
C30_Witness ==
    /\ last.op = "boarding_turn"
    /\ The(target_ship).hull <= 0
    /\ The(target_ship).difficulty > 5
    /\ The(ship_combat_agent).running_narrative # ""
    /\ goblin_ship.hull = 20

====
